---- MODULE Spec2Model ----
(***************************************************************************)
(* A state-machine model of reword.py (TextFormatterBot): the validation   *)
(* and retry loop of format_text, the read-modify-write of save_to_history *)
(* on the shared history file, display_statistics, and the interactive     *)
(* session run() with get_multiline_input and get_task_choice.             *)
(*                                                                         *)
(* Strings are sequences of one-character strings, so that str.strip(),    *)
(* str.lower(), len() and '\n'.join() are computed rather than assumed.    *)
(* Every file operation of save_to_history is one step, so that the steps  *)
(* of two processes sharing formatting_history.json can interleave.        *)
(***************************************************************************)
EXTENDS Integers, Sequences, FiniteSets, TLC

(* ------------------------------ bounds -------------------------------- *)

\* format_text calls made in one behaviour, over all processes
MaxCalls == 2
\* lines held by get_multiline_input before the user must finish
MaxLines == 2

ProcIds == {1, 2}

(* ------------------------- program constants -------------------------- *)

max_retries == 3
initial_retry_delay == 1
default_max_tokens == 500
summarize_max_tokens == 300
\* temperature 0.7, in tenths
default_temperature == 7

(* ------------------------------ strings ------------------------------- *)

Whitespace == {" ", "\n"}

RECURSIVE LStrip(_)
LStrip(s) ==
    IF s = <<>> THEN s
    ELSE IF Head(s) \in Whitespace THEN LStrip(Tail(s)) ELSE s

RECURSIVE RStrip(_)
RStrip(s) ==
    IF s = <<>> THEN s
    ELSE IF s[Len(s)] \in Whitespace THEN RStrip(SubSeq(s, 1, Len(s) - 1)) ELSE s

\* str.strip()
Strip(s) == RStrip(LStrip(s))

LowerChar(c) ==
    CASE c = "D" -> "d"
      [] c = "O" -> "o"
      [] c = "N" -> "n"
      [] c = "E" -> "e"
      [] c = "A" -> "a"
      [] OTHER -> c

\* str.lower()
Lower(s) == [i \in 1..Len(s) |-> LowerChar(s[i])]

\* '\n'.join(lines)
RECURSIVE Join(_)
Join(ls) ==
    IF ls = <<>> THEN <<>>
    ELSE IF Len(ls) = 1 THEN ls[1]
    ELSE ls[1] \o <<"\n">> \o Join(Tail(ls))

\* Python's None where a string is expected; no text equals it, since every
\* element of a text is a single character
None == <<"None">>

\* truthiness of an Optional[str]: None and '' are falsy
Truthy(s) == s # None /\ s # <<>>

(* --------------------------- task registry ---------------------------- *)

TaskNames == <<"formal", "bullet", "summarize">>

tasks ==
    [t \in {TaskNames[i] : i \in 1..Len(TaskNames)} |->
        [name |-> t,
         max_tokens |-> IF t = "summarize" THEN summarize_max_tokens ELSE default_max_tokens,
         temperature |-> default_temperature]]

(* ------------------------------ inputs -------------------------------- *)

\* input_text arguments of direct format_text calls
InputTexts == { <<>>, <<" ", "\n">>, <<" ", "a", "b">> }

\* task arguments of direct format_text calls
TaskArgs == {"summarize", "nonexistent"}

\* message.content of a successful completion (Optional[str])
Contents == { <<"x">>, None }

\* what the user types at the "> " prompt of get_multiline_input
S_done == <<"/", "d", "o", "n", "e">>
S_cancel == <<"/", "c", "a", "n", "c", "e", "l">>
S_clear == <<"/", "c", "l", "e", "a", "r">>
S_preview == <<"/", "p", "r", "e", "v", "i", "e", "w">>
TypedLines ==
    { S_done, <<"/", "D", "O", "N", "E", " ">>, S_cancel, S_clear, S_preview,
      <<>>, <<" ">>, <<"a">>, <<" ", "a", " ">> }

\* what the user types at the task prompt, already stripped and lower-cased
Choices == {"cancel", "0", "1", "4", "formal", "xyz"}

Digits == [c \in {"0", "1", "2", "3", "4"} |->
             CASE c = "0" -> 0 [] c = "1" -> 1 [] c = "2" -> 2 [] c = "3" -> 3 [] OTHER -> 4]

(* --------------------------- history file ----------------------------- *)

\* formatting_history.json: absent, not parseable as JSON (zero bytes or a
\* partial write), a JSON array of entries, or another JSON value
Missing == [kind |-> "missing", data |-> <<>>, truthy |-> FALSE]
Corrupt == [kind |-> "corrupt", data |-> <<>>, truthy |-> FALSE]
JsonList(h) == [kind |-> "list", data |-> h, truthy |-> h # <<>>]
JsonOther(b) == [kind |-> "other", data |-> <<>>, truthy |-> b]

Entry(ts, t, inLen, outLen) ==
    [timestamp |-> ts, task |-> t, input_length |-> inLen, output_length |-> outLen]

OldEntry == Entry(0, "bullet", 3, 2)

InitFiles == { Missing, Corrupt, JsonList(<<>>), JsonList(<<OldEntry>>),
               JsonOther(FALSE), JsonOther(TRUE) }

\* the entries a reader of the file obtains: none unless it holds a JSON array
Persisted(f) == IF f.kind = "list" THEN f.data ELSE <<>>

IsPrefix(s, t) == Len(s) <= Len(t) /\ SubSeq(t, 1, Len(s)) = s

(* ------------------------------- state -------------------------------- *)

VARIABLES
    file,            \* contents of formatting_history.json, shared by all processes
    file0,           \* the file when the first process started (never changes)
    returned,        \* entries of the format_text calls that returned a text, in order
    everFailed,      \* some save_to_history has reached its except clause
    calls,           \* format_text calls made so far, by all processes
    pc,              \* per process: where it is
    client,          \* per process: self.client is set
    input,           \* per process: input_text of the format_text call
    task,            \* per process: task of the format_text call
    attempt,         \* per process: loop variable of format_text
    retry_delay,     \* per process: local of format_text
    formatted_text,  \* per process: local of format_text
    events,          \* per process: remote calls and sleeps of the format_text call
    outcome,         \* per process: how the format_text call ended
    hist,            \* per process: local `history` of save_to_history
    fileAtCall,      \* per process: the file when the format_text call began
    saves,           \* per process: save_to_history invocations of the format_text call
    saveError,       \* per process: "Failed to save history" logged by the call
    inRun,           \* per process: run() is on the stack
    lines,           \* per process: local `lines` of get_multiline_input, <<>> outside it
    user_input,      \* per process: local of run(), None once it is no longer read
    prompted,        \* per process: run() has shown its command prompt
    errorShown,      \* per process: run() has displayed "Error: ..." for a format_text call
    exitCode,        \* per process: value returned by run(), -1 before it returns
    statsResult,     \* per process: what display_statistics printed
    statsInput       \* per process: the file display_statistics saw

fileVars == <<file, file0, returned, everFailed>>
callVars == <<calls, input, task, attempt, retry_delay, formatted_text, events,
              hist, fileAtCall, saves, saveError>>
\* what save_to_history leaves alone of a call's variables
saveFrame == <<calls, input, task, attempt, retry_delay, formatted_text, events,
               fileAtCall, saves>>
runVars == <<inRun, lines, user_input, prompted, errorShown>>
statsVars == <<statsResult, statsInput>>
vars == <<fileVars, pc, callVars, outcome, client, runVars, exitCode, statsVars>>

NoOutcome == [kind |-> "none", msg |-> "", text |-> <<>>]
Returned(t) == [kind |-> "text", msg |-> "", text |-> t]
Raised(k, m) == [kind |-> k, msg |-> m, text |-> <<>>]

Call(res, content) == [op |-> "call", res |-> res, text |-> content, delay |-> 0]
Sleep(d) == [op |-> "sleep", res |-> "", text |-> <<>>, delay |-> d]

NoStats == [kind |-> "none", err |-> "", total |-> 0, counts |-> <<>>,
            percentage |-> <<>>, avg_input_length |-> 0, avg_output_length |-> 0]
NeverRead == [kind |-> "never", data |-> <<>>, truthy |-> FALSE]

InitProc(started) ==
    /\ pc = [p \in ProcIds |-> IF p \in started THEN "idle" ELSE "off"]
    /\ calls = 0
    /\ client = [p \in ProcIds |-> FALSE]
    /\ input = [p \in ProcIds |-> <<>>]
    /\ task = [p \in ProcIds |-> ""]
    /\ attempt = [p \in ProcIds |-> 0]
    /\ retry_delay = [p \in ProcIds |-> initial_retry_delay]
    /\ formatted_text = [p \in ProcIds |-> None]
    /\ events = [p \in ProcIds |-> <<>>]
    /\ outcome = [p \in ProcIds |-> NoOutcome]
    /\ hist = [p \in ProcIds |-> JsonList(<<>>)]
    /\ fileAtCall = [p \in ProcIds |-> Missing]
    /\ saves = [p \in ProcIds |-> 0]
    /\ saveError = [p \in ProcIds |-> FALSE]
    /\ inRun = [p \in ProcIds |-> FALSE]
    /\ lines = [p \in ProcIds |-> <<>>]
    /\ user_input = [p \in ProcIds |-> None]
    /\ prompted = [p \in ProcIds |-> FALSE]
    /\ errorShown = [p \in ProcIds |-> FALSE]
    /\ exitCode = [p \in ProcIds |-> -1]
    /\ statsResult = [p \in ProcIds |-> NoStats]
    /\ statsInput = [p \in ProcIds |-> NeverRead]

InitFile ==
    /\ file \in InitFiles
    /\ file0 = file
    /\ returned = <<>>
    /\ everFailed = FALSE

\* one TextFormatterBot process
Init == InitFile /\ InitProc({1})

\* two TextFormatterBot processes started in the same directory
InitShared == InitFile /\ InitProc(ProcIds)

\* what time.strftime returns; the clock of the model ticks once per
\* format_text call
Now == calls

\* where control is once a call made by run() or by a library user is over
AfterCall(p) == IF inRun[p] THEN "prompt" ELSE "idle"

\* the frame of format_text (and of the save_to_history it called) is popped:
\* its arguments, locals and log are gone
PopFrame(p) ==
    /\ input' = [input EXCEPT ![p] = <<>>]
    /\ task' = [task EXCEPT ![p] = ""]
    /\ attempt' = [attempt EXCEPT ![p] = 0]
    /\ retry_delay' = [retry_delay EXCEPT ![p] = initial_retry_delay]
    /\ formatted_text' = [formatted_text EXCEPT ![p] = None]
    /\ events' = [events EXCEPT ![p] = <<>>]
    /\ hist' = [hist EXCEPT ![p] = JsonList(<<>>)]
    /\ fileAtCall' = [fileAtCall EXCEPT ![p] = Missing]
    /\ saves' = [saves EXCEPT ![p] = 0]
    /\ saveError' = [saveError EXCEPT ![p] = FALSE]
    /\ outcome' = [outcome EXCEPT ![p] = NoOutcome]
    /\ UNCHANGED calls

(* ----------------------------- load_config ---------------------------- *)

\* load_config called by a library user: sets self.client when OPENAI_API_KEY
\* is in the environment, raises ValueError and changes nothing otherwise
CallLoadConfig(p) ==
    /\ pc[p] = "idle"
    /\ \E api_key \in BOOLEAN :
          client' = [client EXCEPT ![p] = IF api_key THEN TRUE ELSE @]
    /\ UNCHANGED <<fileVars, pc, callVars, outcome, runVars, exitCode, statsVars>>

(* ----------------------------- format_text ---------------------------- *)

\* faulty variant: the emptiness test is made on the text as given, not stripped
ValidateWithoutStrip(text, t, cl) ==
    IF text = <<>> THEN Raised("ValueError", "Input text cannot be empty")
    ELSE IF ~cl THEN Raised("ValueError", "OpenAI client not initialized")
    ELSE IF t \notin DOMAIN tasks THEN Raised("KeyError", t)
    ELSE NoOutcome

\* the checks made before the retry loop, in the order of the code; the
\* result is NoOutcome when the call may proceed
Validate(text, t, cl) ==
    IF Strip(text) = <<>> THEN Raised("ValueError", "Input text cannot be empty")
    ELSE IF ~cl THEN Raised("ValueError", "OpenAI client not initialized")
    ELSE IF t \notin DOMAIN tasks THEN Raised("KeyError", t)
    ELSE NoOutcome

\* format_text(text, t) up to the first iteration of the retry loop
FormatTextEntry(p, text, t) ==
    /\ calls < MaxCalls
    /\ calls' = calls + 1
    /\ input' = [input EXCEPT ![p] = text]
    /\ task' = [task EXCEPT ![p] = t]
    /\ attempt' = [attempt EXCEPT ![p] = 0]
    /\ retry_delay' = [retry_delay EXCEPT ![p] = initial_retry_delay]
    /\ formatted_text' = [formatted_text EXCEPT ![p] = None]
    /\ events' = [events EXCEPT ![p] = <<>>]
    /\ hist' = [hist EXCEPT ![p] = JsonList(<<>>)]
    /\ fileAtCall' = [fileAtCall EXCEPT ![p] = file]
    /\ saves' = [saves EXCEPT ![p] = 0]
    /\ saveError' = [saveError EXCEPT ![p] = FALSE]
    /\ outcome' = [outcome EXCEPT ![p] = Validate(text, t, client[p])]
    /\ pc' = [pc EXCEPT ![p] =
                 IF Validate(text, t, client[p]) = NoOutcome THEN "attempt" ELSE "raised"]
    /\ UNCHANGED fileVars

\* format_text called by a library user
CallFormatText(p) ==
    /\ pc[p] = "idle"
    /\ \E text \in InputTexts, t \in TaskArgs : FormatTextEntry(p, text, t)
    /\ UNCHANGED <<client, runVars, exitCode, statsVars>>

\* an attempt whose completion arrives: take its content, call save_to_history
RemoteSuccess(p) ==
    /\ pc[p] = "attempt"
    /\ \E content \in Contents :
          /\ events' = [events EXCEPT ![p] = Append(@, Call("ok", content))]
          /\ formatted_text' = [formatted_text EXCEPT ![p] = content]
    /\ saves' = [saves EXCEPT ![p] = @ + 1]
    /\ pc' = [pc EXCEPT ![p] = "save_read"]
    /\ UNCHANGED <<fileVars, calls, input, task, attempt, retry_delay, hist, fileAtCall,
                   saveError, outcome, client, runVars, exitCode, statsVars>>

\* faulty variant: the backoff is not doubled
RemoteAPIErrorFixedDelay(p) ==
    /\ pc[p] = "attempt"
    /\ IF attempt[p] < max_retries - 1
          THEN /\ events' = [events EXCEPT ![p] =
                                @ \o <<Call("APIError", <<>>), Sleep(retry_delay[p])>>]
               /\ attempt' = [attempt EXCEPT ![p] = @ + 1]
               /\ UNCHANGED <<pc, outcome, retry_delay>>
          ELSE /\ events' = [events EXCEPT ![p] = Append(@, Call("APIError", <<>>))]
               /\ outcome' = [outcome EXCEPT ![p] =
                     Raised("Exception", "Failed to format text after multiple attempts")]
               /\ pc' = [pc EXCEPT ![p] = "raised"]
               /\ UNCHANGED <<attempt, retry_delay>>
    /\ UNCHANGED <<fileVars, calls, input, task, formatted_text, hist, fileAtCall, saves,
                   saveError, client, runVars, exitCode, statsVars>>

\* faulty variant: the last attempt is also followed by a sleep, the loop runs out
\* and format_text returns None
RemoteAPIErrorOffByOne(p) ==
    /\ pc[p] = "attempt"
    /\ events' = [events EXCEPT ![p] =
                     @ \o <<Call("APIError", <<>>), Sleep(retry_delay[p])>>]
    /\ retry_delay' = [retry_delay EXCEPT ![p] = @ * 2]
    /\ attempt' = [attempt EXCEPT ![p] = @ + 1]
    /\ IF attempt[p] < max_retries - 1
          THEN UNCHANGED <<pc, outcome>>
          ELSE /\ outcome' = [outcome EXCEPT ![p] = Returned(None)]
               /\ pc' = [pc EXCEPT ![p] = "returned"]
    /\ UNCHANGED <<fileVars, calls, input, task, formatted_text, hist, fileAtCall, saves,
                   saveError, client, runVars, exitCode, statsVars>>

\* an attempt that raises openai.APIError: sleep and double the delay, or
\* raise after the last attempt
RemoteAPIError(p) ==
    /\ pc[p] = "attempt"
    /\ IF attempt[p] < max_retries - 1
          THEN /\ events' = [events EXCEPT ![p] =
                                @ \o <<Call("APIError", <<>>), Sleep(retry_delay[p])>>]
               /\ retry_delay' = [retry_delay EXCEPT ![p] = @ * 2]
               /\ attempt' = [attempt EXCEPT ![p] = @ + 1]
               /\ UNCHANGED <<pc, outcome>>
          ELSE /\ events' = [events EXCEPT ![p] = Append(@, Call("APIError", <<>>))]
               /\ outcome' = [outcome EXCEPT ![p] =
                     Raised("Exception", "Failed to format text after multiple attempts")]
               /\ pc' = [pc EXCEPT ![p] = "raised"]
               /\ UNCHANGED <<attempt, retry_delay>>
    /\ UNCHANGED <<fileVars, calls, input, task, formatted_text, hist, fileAtCall, saves,
                   saveError, client, runVars, exitCode, statsVars>>

\* faulty variant: every exception of an attempt is retried like an APIError
RemoteOtherErrorRetried(p) ==
    /\ pc[p] = "attempt"
    /\ IF attempt[p] < max_retries - 1
          THEN /\ events' = [events EXCEPT ![p] =
                                @ \o <<Call("Other", <<>>), Sleep(retry_delay[p])>>]
               /\ retry_delay' = [retry_delay EXCEPT ![p] = @ * 2]
               /\ attempt' = [attempt EXCEPT ![p] = @ + 1]
               /\ UNCHANGED <<pc, outcome>>
          ELSE /\ events' = [events EXCEPT ![p] = Append(@, Call("Other", <<>>))]
               /\ outcome' = [outcome EXCEPT ![p] =
                     Raised("Exception", "Failed to format text after multiple attempts")]
               /\ pc' = [pc EXCEPT ![p] = "raised"]
               /\ UNCHANGED <<attempt, retry_delay>>
    /\ UNCHANGED <<fileVars, calls, input, task, formatted_text, hist, fileAtCall, saves,
                   saveError, client, runVars, exitCode, statsVars>>

\* an attempt that raises any other exception: logged and re-raised
RemoteOtherError(p) ==
    /\ pc[p] = "attempt"
    /\ events' = [events EXCEPT ![p] = Append(@, Call("Other", <<>>))]
    /\ outcome' = [outcome EXCEPT ![p] = Raised("Other", "Unexpected error")]
    /\ pc' = [pc EXCEPT ![p] = "raised"]
    /\ UNCHANGED <<fileVars, calls, input, task, attempt, retry_delay, formatted_text, hist,
                   fileAtCall, saves, saveError, client, runVars, exitCode, statsVars>>

(* --------------------------- save_to_history -------------------------- *)

\* faulty variant: save_to_history has no except clause, so its failure reaches the
\* `except Exception` of format_text, which logs and re-raises it
SaveExceptReraised(p) ==
    /\ saveError' = [saveError EXCEPT ![p] = TRUE]
    /\ everFailed' = TRUE
    /\ outcome' = [outcome EXCEPT ![p] = Raised("Other", "Unexpected error")]
    /\ pc' = [pc EXCEPT ![p] = "raised"]

\* the except clause of save_to_history: log "Failed to save history" and
\* return normally to format_text
SaveExcept(p) ==
    /\ saveError' = [saveError EXCEPT ![p] = TRUE]
    /\ everFailed' = TRUE
    /\ pc' = [pc EXCEPT ![p] = "return"]
    /\ UNCHANGED outcome

\* faulty variant: the existing file is not read; history always starts empty
SaveReadIgnoresFile(p) ==
    /\ pc[p] = "save_read"
    /\ hist' = [hist EXCEPT ![p] = JsonList(<<>>)]
    /\ pc' = [pc EXCEPT ![p] = "save_append"]
    /\ UNCHANGED <<saveError, everFailed, outcome>>
    /\ UNCHANGED <<file, file0, returned, saveFrame, client, runVars, exitCode, statsVars>>

\* history = [] ; if the file exists: open it for reading and json.load it.
\* The open or the read can fail; json.load fails on a file that is not JSON
SaveRead(p) ==
    /\ pc[p] = "save_read"
    /\ IF file.kind = "missing"
          THEN /\ hist' = [hist EXCEPT ![p] = JsonList(<<>>)]
               /\ pc' = [pc EXCEPT ![p] = "save_append"]
               /\ UNCHANGED <<saveError, everFailed, outcome>>
          ELSE \E io_ok \in BOOLEAN :
                  IF io_ok /\ file.kind # "corrupt"
                     THEN /\ hist' = [hist EXCEPT ![p] = file]
                          /\ pc' = [pc EXCEPT ![p] = "save_append"]
                          /\ UNCHANGED <<saveError, everFailed, outcome>>
                     ELSE SaveExcept(p) /\ UNCHANGED hist
    /\ UNCHANGED <<file, file0, returned, saveFrame, client, runVars, exitCode, statsVars>>

\* history.append({...}): fails when the loaded JSON is not an array
\* (AttributeError) or the completion's content is None (TypeError of len)
SaveAppend(p) ==
    /\ pc[p] = "save_append"
    /\ IF hist[p].kind = "list" /\ formatted_text[p] # None
          THEN /\ hist' = [hist EXCEPT ![p] = JsonList(Append(@.data,
                          Entry(Now, task[p], Len(input[p]), Len(formatted_text[p]))))]
               /\ pc' = [pc EXCEPT ![p] = "save_open"]
               /\ UNCHANGED <<saveError, everFailed, outcome>>
          ELSE SaveExcept(p) /\ UNCHANGED hist
    /\ UNCHANGED <<file, file0, returned, saveFrame, client, runVars, exitCode, statsVars>>

\* open(history_file, 'w'): creates or truncates the file to zero bytes, or
\* fails and leaves it alone
SaveOpenWrite(p) ==
    /\ pc[p] = "save_open"
    /\ \E io_ok \in BOOLEAN :
          IF io_ok
             THEN /\ file' = Corrupt
                  /\ pc' = [pc EXCEPT ![p] = "save_dump"]
                  /\ UNCHANGED <<saveError, everFailed, outcome>>
             ELSE SaveExcept(p) /\ UNCHANGED file
    /\ UNCHANGED <<file0, returned, saveFrame, hist, client, runVars, exitCode, statsVars>>

\* faulty variant: the new entry is dumped instead of the whole list
SaveDumpEntryOnly(p) ==
    /\ pc[p] = "save_dump"
    /\ file' = JsonList(<<hist[p].data[Len(hist[p].data)]>>)
    /\ pc' = [pc EXCEPT ![p] = "return"]
    /\ UNCHANGED <<saveError, everFailed, outcome>>
    /\ UNCHANGED <<file0, returned, saveFrame, hist, client, runVars, exitCode, statsVars>>

\* json.dump(history, f) and the close of the file: the whole list replaces
\* the file's contents, or the write fails and leaves an incomplete file
SaveDump(p) ==
    /\ pc[p] = "save_dump"
    /\ \E io_ok \in BOOLEAN :
          IF io_ok
             THEN /\ file' = hist[p]
                  /\ pc' = [pc EXCEPT ![p] = "return"]
                  /\ UNCHANGED <<saveError, everFailed, outcome>>
             ELSE /\ file' = Corrupt
                  /\ SaveExcept(p)
    /\ UNCHANGED <<file0, returned, saveFrame, hist, client, runVars, exitCode, statsVars>>

\* return formatted_text
FormatReturn(p) ==
    /\ pc[p] = "return"
    /\ outcome' = [outcome EXCEPT ![p] = Returned(formatted_text[p])]
    /\ returned' = IF formatted_text[p] = None THEN returned
                   ELSE Append(returned, [task |-> task[p],
                                          input_length |-> Len(input[p]),
                                          output_length |-> Len(formatted_text[p])])
    /\ pc' = [pc EXCEPT ![p] = "returned"]
    /\ UNCHANGED <<file, file0, everFailed, callVars, client, runVars, exitCode, statsVars>>

\* a library user's format_text call is over, with a text or an exception
CallEnds(p) ==
    /\ pc[p] \in {"returned", "raised"}
    /\ ~inRun[p]
    /\ PopFrame(p)
    /\ pc' = [pc EXCEPT ![p] = "idle"]
    /\ UNCHANGED <<fileVars, client, runVars, exitCode, statsVars>>

(* -------------------------- display_statistics ------------------------ *)

TasksIn(history) == {history[i].task : i \in 1..Len(history)}

RECURSIVE SumOf(_, _)
SumOf(history, field) ==
    IF history = <<>> THEN 0
    ELSE history[1][field] + SumOf(Tail(history), field)

CountOf(history, t) == Cardinality({i \in 1..Len(history) : history[i].task = t})

StatsEmpty == [NoStats EXCEPT !.kind = "empty"]
StatsError(e) == [NoStats EXCEPT !.kind = "error", !.err = e]

\* lines 279-301 on a loaded list: the counts, then the divisions by
\* total_uses; a division by zero raises ZeroDivisionError, which the except
\* clause of display_statistics reports as "Error loading statistics".
\* Percentages and averages are kept as their integer parts
ComputeStatistics(history) ==
    LET total_uses == Len(history)
        task_counts == [t \in TasksIn(history) |-> CountOf(history, t)]
    IN  IF total_uses = 0
           THEN StatsError("ZeroDivisionError")
           ELSE [kind |-> "stats",
                 err |-> "",
                 total |-> total_uses,
                 counts |-> task_counts,
                 percentage |-> [t \in TasksIn(history) |->
                                    (task_counts[t] * 100) \div total_uses],
                 avg_input_length |-> SumOf(history, "input_length") \div total_uses,
                 avg_output_length |-> SumOf(history, "output_length") \div total_uses]

\* faulty variant: the `if not history` test is missing
StatisticsOfUnguarded(f, io_ok) ==
    IF f.kind = "missing" THEN StatsEmpty
    ELSE IF ~io_ok \/ f.kind = "corrupt" THEN StatsError("load")
    ELSE IF f.kind = "other" THEN StatsError("TypeError")
    ELSE ComputeStatistics(f.data)

\* display_statistics on file f, whose open and read succeed iff io_ok
StatisticsOf(f, io_ok) ==
    IF f.kind = "missing" THEN StatsEmpty
    ELSE IF ~io_ok \/ f.kind = "corrupt" THEN StatsError("load")
    ELSE IF ~f.truthy THEN StatsEmpty
    ELSE IF f.kind = "other" THEN StatsError("TypeError")
    ELSE ComputeStatistics(f.data)

\* display_statistics up to its last print; "stats" is the process looking at
\* what was printed
ShowStatistics(p) ==
    /\ \E io_ok \in BOOLEAN :
          statsResult' = [statsResult EXCEPT ![p] = StatisticsOf(file, io_ok)]
    /\ statsInput' = [statsInput EXCEPT ![p] = file]
    /\ pc' = [pc EXCEPT ![p] = "stats"]

\* display_statistics called by a library user
CallDisplayStatistics(p) ==
    /\ pc[p] = "idle"
    /\ ShowStatistics(p)
    /\ UNCHANGED <<fileVars, callVars, outcome, client, runVars, exitCode>>

\* display_statistics returns to its caller; the printed report scrolls away
StatisticsReturn(p) ==
    /\ pc[p] = "stats"
    /\ statsResult' = [statsResult EXCEPT ![p] = NoStats]
    /\ statsInput' = [statsInput EXCEPT ![p] = NeverRead]
    /\ pc' = [pc EXCEPT ![p] = AfterCall(p)]
    /\ UNCHANGED <<fileVars, callVars, outcome, client, runVars, exitCode>>

(* --------------------------------- run -------------------------------- *)

\* run() up to its first prompt: load_config, then the banner and the command
\* list; when load_config raises, the outer except clause returns 1
RunStart(p) ==
    /\ pc[p] = "idle"
    /\ inRun' = [inRun EXCEPT ![p] = TRUE]
    /\ \E api_key \in BOOLEAN :
          IF api_key
             THEN /\ client' = [client EXCEPT ![p] = TRUE]
                  /\ prompted' = [prompted EXCEPT ![p] = TRUE]
                  /\ pc' = [pc EXCEPT ![p] = "prompt"]
                  /\ UNCHANGED exitCode
             ELSE /\ exitCode' = [exitCode EXCEPT ![p] = 1]
                  /\ pc' = [pc EXCEPT ![p] = "exited"]
                  /\ UNCHANGED <<client, prompted>>
    /\ UNCHANGED <<fileVars, callVars, outcome, lines, user_input, errorShown, statsVars>>

\* command 'exit': leave the loop, return 0
RunExit(p) ==
    /\ pc[p] = "prompt"
    /\ exitCode' = [exitCode EXCEPT ![p] = 0]
    /\ pc' = [pc EXCEPT ![p] = "exited"]
    /\ UNCHANGED <<fileVars, callVars, outcome, client, runVars, statsVars>>

\* command 'stats': display_statistics, then the prompt again
RunStats(p) ==
    /\ pc[p] = "prompt"
    /\ ShowStatistics(p)
    /\ UNCHANGED <<fileVars, callVars, outcome, client, runVars, exitCode>>

\* any other command: get_multiline_input starts with no lines
RunInput(p) ==
    /\ pc[p] = "prompt"
    /\ lines' = [lines EXCEPT ![p] = <<>>]
    /\ pc' = [pc EXCEPT ![p] = "input"]
    /\ UNCHANGED <<fileVars, callVars, outcome, client, inRun, user_input, prompted,
                   errorShown, exitCode, statsVars>>

\* one line typed in get_multiline_input. On '/done' with lines, the function
\* returns their join and run() goes on to the task choice unless the text is
\* falsy; '/cancel' returns None and run() prompts again
InputLine(p) ==
    /\ pc[p] = "input"
    /\ \E typed \in TypedLines :
          LET line == Strip(typed) IN
          IF Lower(line) = S_done
             THEN IF lines[p] = <<>>
                     THEN UNCHANGED <<pc, lines, user_input>>
                     ELSE /\ user_input' = [user_input EXCEPT ![p] =
                                       IF Truthy(Join(lines[p])) THEN Join(lines[p]) ELSE None]
                          /\ pc' = [pc EXCEPT ![p] =
                                       IF Truthy(Join(lines[p])) THEN "choice" ELSE "prompt"]
                          /\ lines' = [lines EXCEPT ![p] = <<>>]
          ELSE IF Lower(line) = S_cancel
             THEN /\ user_input' = [user_input EXCEPT ![p] = None]
                  /\ pc' = [pc EXCEPT ![p] = "prompt"]
                  /\ lines' = [lines EXCEPT ![p] = <<>>]
          ELSE IF Lower(line) = S_clear
             THEN /\ lines' = [lines EXCEPT ![p] = <<>>]
                  /\ UNCHANGED <<pc, user_input>>
          ELSE IF Lower(line) = S_preview
             THEN UNCHANGED <<pc, lines, user_input>>
          ELSE /\ Len(lines[p]) < MaxLines
               /\ lines' = [lines EXCEPT ![p] = Append(@, line)]
               /\ UNCHANGED <<pc, user_input>>
    /\ UNCHANGED <<fileVars, callVars, outcome, client, inRun, prompted, errorShown,
                   exitCode, statsVars>>

\* KeyboardInterrupt at the "> " prompt: get_multiline_input returns None
InputInterrupt(p) ==
    /\ pc[p] = "input"
    /\ user_input' = [user_input EXCEPT ![p] = None]
    /\ lines' = [lines EXCEPT ![p] = <<>>]
    /\ pc' = [pc EXCEPT ![p] = "prompt"]
    /\ UNCHANGED <<fileVars, callVars, outcome, client, inRun, prompted, errorShown,
                   exitCode, statsVars>>

\* get_task_choice on one typed choice: the task it selects, "" when it
\* cancels, "?" when it is invalid
ChosenTask(choice) ==
    IF choice = "cancel" THEN ""
    ELSE IF choice \in DOMAIN Digits
            /\ 0 <= Digits[choice] - 1 /\ Digits[choice] - 1 < Len(TaskNames)
         THEN TaskNames[Digits[choice]]
    ELSE IF choice \in DOMAIN tasks THEN choice
    ELSE "?"

\* one choice typed in get_task_choice: 'cancel' returns None and run()
\* prompts again, an invalid choice is asked again, a valid one is returned
\* and run() calls format_text(user_input, task_type)
TaskChoice(p) ==
    /\ pc[p] = "choice"
    /\ \E choice \in Choices :
          CASE ChosenTask(choice) = "" ->
                  /\ pc' = [pc EXCEPT ![p] = "prompt"]
                  /\ user_input' = [user_input EXCEPT ![p] = None]
                  /\ UNCHANGED <<fileVars, callVars, outcome>>
            [] ChosenTask(choice) = "?" ->
                  UNCHANGED <<fileVars, pc, callVars, outcome, user_input>>
            [] OTHER ->
                  /\ FormatTextEntry(p, user_input[p], ChosenTask(choice))
                  /\ user_input' = [user_input EXCEPT ![p] = None]
    /\ UNCHANGED <<client, inRun, lines, prompted, errorShown, exitCode, statsVars>>

\* KeyboardInterrupt while run() blocks in input() at the command prompt or
\* the task prompt, or in the remote call or the backoff sleep of format_text:
\* "Operation cancelled by user." is printed and the loop goes on
RunInterrupt(p) ==
    /\ pc[p] \in {"prompt", "choice", "attempt"}
    /\ inRun[p]
    /\ PopFrame(p)
    /\ user_input' = [user_input EXCEPT ![p] = None]
    /\ pc' = [pc EXCEPT ![p] = "prompt"]
    /\ UNCHANGED <<fileVars, client, inRun, lines, prompted, errorShown, exitCode,
                   statsVars>>

\* format_text returned to run(): the result is printed, the loop goes on
RunShowResult(p) ==
    /\ pc[p] = "returned"
    /\ inRun[p]
    /\ PopFrame(p)
    /\ pc' = [pc EXCEPT ![p] = "prompt"]
    /\ UNCHANGED <<fileVars, client, runVars, exitCode, statsVars>>

\* faulty variant: an exception of format_text reaches the outer except clause of
\* run(), which returns 1
RunShowErrorFatal(p) ==
    /\ pc[p] = "raised"
    /\ inRun[p]
    /\ PopFrame(p)
    /\ errorShown' = [errorShown EXCEPT ![p] = TRUE]
    /\ exitCode' = [exitCode EXCEPT ![p] = 1]
    /\ pc' = [pc EXCEPT ![p] = "exited"]
    /\ UNCHANGED <<fileVars, client, inRun, lines, user_input, prompted, statsVars>>

\* format_text raised into run(): the inner except clause logs and prints
\* the error, sleeps 2 and the loop goes on
RunShowError(p) ==
    /\ pc[p] = "raised"
    /\ inRun[p]
    /\ PopFrame(p)
    /\ errorShown' = [errorShown EXCEPT ![p] = TRUE]
    /\ pc' = [pc EXCEPT ![p] = "prompt"]
    /\ UNCHANGED <<fileVars, client, inRun, lines, user_input, prompted, exitCode,
                   statsVars>>

(* --------------------------- specifications --------------------------- *)

Next ==
    \E p \in ProcIds :
        \/ CallLoadConfig(p)
        \/ CallFormatText(p)
        \/ RemoteSuccess(p)
        \/ RemoteAPIError(p)
        \/ RemoteOtherError(p)
        \/ SaveRead(p)
        \/ SaveAppend(p)
        \/ SaveOpenWrite(p)
        \/ SaveDump(p)
        \/ FormatReturn(p)
        \/ CallEnds(p)
        \/ CallDisplayStatistics(p)
        \/ StatisticsReturn(p)
        \/ RunStart(p)
        \/ RunExit(p)
        \/ RunStats(p)
        \/ RunInput(p)
        \/ InputLine(p)
        \/ InputInterrupt(p)
        \/ TaskChoice(p)
        \/ RunInterrupt(p)
        \/ RunShowResult(p)
        \/ RunShowError(p)

\* a single process
Spec == Init /\ [][Next]_vars

\* two library users in two processes: each configures its client and calls
\* format_text and display_statistics
NextShared ==
    \E p \in ProcIds :
        \/ CallLoadConfig(p)
        \/ CallFormatText(p)
        \/ RemoteSuccess(p)
        \/ RemoteAPIError(p)
        \/ RemoteOtherError(p)
        \/ SaveRead(p)
        \/ SaveAppend(p)
        \/ SaveOpenWrite(p)
        \/ SaveDump(p)
        \/ FormatReturn(p)
        \/ CallEnds(p)
        \/ CallDisplayStatistics(p)
        \/ StatisticsReturn(p)

\* two processes sharing one history file
SpecShared == InitShared /\ [][NextShared]_vars

(* ------------------------------ properties ---------------------------- *)

CallEvents(es) == SelectSeq(es, LAMBDA e : e.op = "call")
SleepEvents(es) == SelectSeq(es, LAMBDA e : e.op = "sleep")

SaveStates == {"save_read", "save_append", "save_open", "save_dump"}
InCall == {"attempt", "return", "returned", "raised"} \cup SaveStates

\* no format_text call is in progress in any process
Quiet == \A p \in ProcIds : pc[p] \notin InCall

IsBlank(text) == \A i \in 1..Len(text) : text[i] \in Whitespace

\* a history entry without its timestamp
Project(h) ==
    [i \in 1..Len(h) |-> [task |-> h[i].task,
                          input_length |-> h[i].input_length,
                          output_length |-> h[i].output_length]]

RECURSIVE IsSubseq(_, _)
IsSubseq(s, t) ==
    IF s = <<>> THEN TRUE
    ELSE IF t = <<>> THEN FALSE
    ELSE IF Head(s) = Head(t) THEN IsSubseq(Tail(s), Tail(t))
    ELSE IsSubseq(s, Tail(t))

RECURSIVE SumOver(_, _)
SumOver(f, S) ==
    IF S = {} THEN 0
    ELSE LET x == CHOOSE y \in S : TRUE IN f[x] + SumOver(f, S \ {x})

FailedAttempt == Call("APIError", <<>>)

\* C1: when attempts 1 and 2 raise APIError and attempt 3 succeeds, the call's
\* events are exactly call, sleep(1), call, sleep(2), call (three remote
\* calls, two sleeps, nothing after the success) and format_text returns the
\* text of the third attempt.
C1_TwoFailuresThenSuccess ==
    \A p \in ProcIds :
        LET cs == CallEvents(events[p]) IN
        (Len(cs) >= 3 /\ cs[1].res = "APIError" /\ cs[2].res = "APIError"
                      /\ cs[3].res = "ok")
        => /\ events[p] = <<FailedAttempt, Sleep(1), FailedAttempt, Sleep(2),
                            Call("ok", cs[3].text)>>
           /\ pc[p] \in SaveStates \cup {"return", "returned"}
           /\ outcome[p] = IF pc[p] = "returned" THEN Returned(cs[3].text) ELSE NoOutcome

C1_Witness ==
    /\ pc[1] = "returned"
    /\ events[1] = <<FailedAttempt, Sleep(1), FailedAttempt, Sleep(2), Call("ok", <<"x">>)>>
    /\ outcome[1] = Returned(<<"x">>)

\* C2: when all three attempts raise APIError, format_text ends by raising the
\* exhausted-retries exception, returns nothing, has made exactly three remote
\* calls, never invoked save_to_history, and the history file is as it was
\* when the call began.
C2_ExhaustedRetries ==
    \A p \in ProcIds :
        LET cs == CallEvents(events[p]) IN
        (Len(cs) >= max_retries /\ \A i \in 1..max_retries : cs[i].res = "APIError")
        => /\ Len(cs) = 3
           /\ Len(SleepEvents(events[p])) = 2
           /\ pc[p] = "raised"
           /\ outcome[p] =
                 Raised("Exception", "Failed to format text after multiple attempts")
           /\ saves[p] = 0
           /\ file = fileAtCall[p]

C2_Witness ==
    /\ pc[1] = "raised"
    /\ outcome[1].kind = "Exception"
    /\ Len(CallEvents(events[1])) = 3
    /\ file = JsonList(<<OldEntry>>)

\* C3: a format_text call whose input is blank, whose task is not in the
\* registry or whose client is not configured (in any combination) raises
\* before the retry loop: no remote call, no sleep, no save_to_history, the
\* history file unchanged; and a validation error never follows an attempt.
C3_ValidationBeforeLoop ==
    \A p \in ProcIds :
        /\ (pc[p] \in InCall
              /\ (IsBlank(input[p]) \/ task[p] \notin DOMAIN tasks \/ ~client[p]))
           => /\ pc[p] = "raised"
              /\ outcome[p].kind \in {"ValueError", "KeyError"}
        /\ outcome[p].kind \in {"ValueError", "KeyError"}
           => /\ events[p] = <<>>
              /\ saves[p] = 0
              /\ file = fileAtCall[p]

C3_Witness ==
    /\ pc[1] = "raised"
    /\ input[1] = <<" ", "\n">>
    /\ client[1]
    /\ task[1] \in DOMAIN tasks
    /\ outcome[1] = Raised("ValueError", "Input text cannot be empty")
    /\ events[1] = <<>>

\* C4: an attempt that raises an exception other than APIError ends the call
\* at once with that error, on whichever attempt it occurs: it is the last
\* event of the call (no further call, no sleep), save_to_history is not
\* invoked and the history file is unchanged.
C4_OtherErrorNotRetried ==
    \A p \in ProcIds :
        \A i \in 1..Len(events[p]) :
            events[p][i].res = "Other"
            => /\ i = Len(events[p])
               /\ pc[p] = "raised"
               /\ outcome[p] = Raised("Other", "Unexpected error")
               /\ saves[p] = 0
               /\ file = fileAtCall[p]

C4_Witness ==
    /\ pc[1] = "raised"
    /\ events[1] = <<FailedAttempt, Sleep(1), Call("Other", <<>>)>>
    /\ outcome[1].kind = "Other"

\* C5: once an attempt has succeeded, no further remote call or sleep is made
\* and format_text goes on to return that attempt's content, whether or not
\* recording the history failed: a failure inside save_to_history is logged
\* and never becomes an exception of format_text.
C5_SaveFailureSwallowed ==
    \A p \in ProcIds :
        /\ \A i \in 1..Len(events[p]) :
              events[p][i].res = "ok"
              => /\ i = Len(events[p])
                 /\ pc[p] \in SaveStates \cup {"return", "returned"}
                 /\ pc[p] = "returned" => outcome[p] = Returned(events[p][i].text)
                 /\ pc[p] # "returned" => outcome[p] = NoOutcome
        /\ saveError[p] => pc[p] \in {"return", "returned"}

C5_Witness ==
    /\ pc[1] = "returned"
    /\ saveError[1]
    /\ file = Corrupt
    /\ fileAtCall[1] = JsonList(<<OldEntry>>)
    /\ outcome[1] = Returned(<<"x">>)

StartedEmpty == file0 \in {Missing, JsonList(<<>>)}

\* C6 as claimed: starting from a missing or empty history file, once no call
\* is in progress the persisted history is exactly the list of the calls that
\* returned a text.
C6_AllSuccessesPersisted ==
    (Quiet /\ StartedEmpty) => Project(Persisted(file)) = returned

\* C6 as amended: starting from a missing or empty history file, once no call
\* is in progress the persisted history, when the file can be read, is an
\* order-preserving sub-list of the calls that returned a text (none for a
\* failed call, at most one per success); it is the whole list when no
\* save_to_history has failed; and display_statistics reports as total the
\* number of persisted entries, with per-task counts that sum to it.
C6_PersistedSubsequence ==
    (Quiet /\ StartedEmpty)
    => /\ file.kind \in {"missing", "corrupt", "list"}
       /\ IsSubseq(Project(Persisted(file)), returned)
       /\ ~everFailed => Project(Persisted(file)) = returned
       /\ Persisted(file) # <<>>
          => LET st == StatisticsOf(file, TRUE) IN
             /\ st.kind = "stats"
             /\ st.total = Len(Persisted(file))
             /\ SumOver(st.counts, DOMAIN st.counts) = st.total
             /\ ~everFailed => st.total = Len(returned)

C6_Witness ==
    /\ Quiet
    /\ file0 = Missing
    /\ ~everFailed
    /\ Len(returned) = 2
    /\ returned[1] # returned[2]
    /\ Project(Persisted(file)) = returned

\* C7 as claimed: when save_to_history is over, whether it failed or not, the
\* entries that were persisted when the call began are a prefix of the
\* entries persisted now.
C7_EntriesNeverLost ==
    \A p \in ProcIds :
        (pc[p] \in {"return", "returned"} /\ saves[p] = 1)
        => IsPrefix(Persisted(fileAtCall[p]), Persisted(file))

\* the list save_to_history read, given the list it went on to write
Snapshot(p) == SubSeq(hist[p].data, 1, Len(hist[p].data) - 1)

BothSaved ==
    \A p \in ProcIds :
        /\ pc[p] \in {"return", "returned"}
        /\ saves[p] = 1
        /\ ~saveError[p]

\* C8: when two processes have both completed save_to_history without error
\* after reading the same contents of the file, the file holds the list
\* written by one of them: what they read plus one entry, so the other
\* process's entry is not persisted.
C8_LastWriterWins ==
    (BothSaved /\ Snapshot(1) = Snapshot(2))
    => /\ file \in {hist[1], hist[2]}
       /\ Len(Persisted(file)) = Len(Snapshot(1)) + 1

C8_Witness ==
    /\ pc[1] = "returned" /\ pc[2] = "returned"
    /\ outcome[1].kind = "text" /\ outcome[2].kind = "text"
    /\ ~everFailed
    /\ Len(returned) = 2
    /\ file0 = JsonList(<<OldEntry>>)
    /\ Len(Persisted(file)) = 2

\* C9: display_statistics never divides by zero: on a missing file, and on
\* an empty list once it is loaded, it prints the "no usage history" result
\* (a file that cannot be opened or read gives "Error loading statistics"),
\* and it computes percentages and averages only over at least one entry.
C9_NoDivisionByZero ==
    \A p \in ProcIds :
        pc[p] = "stats"
        => /\ statsResult[p].err # "ZeroDivisionError"
           /\ statsInput[p].kind = "missing" => statsResult[p] = StatsEmpty
           /\ statsInput[p] = JsonList(<<>>)
              => statsResult[p] \in {StatsEmpty, StatsError("load")}
           /\ statsResult[p].kind = "stats"
              => /\ statsResult[p].total >= 1
                 /\ statsResult[p].total = Len(statsInput[p].data)

C9_Witness ==
    /\ pc[1] = "stats"
    /\ statsInput[1] = JsonList(<<>>)
    /\ statsResult[1] = StatsEmpty

\* C10: in run(), an exception of format_text (validation or exhausted
\* retries) does not end the session: the next step of the process shows the
\* error and is back at the command prompt with no exit code; leaving the
\* prompt by 'exit' returns 0; run() returns 1 only from a failed start-up,
\* before any prompt, and a session makes remote calls only after its prompt
\* was shown and before it has returned.
C10_SessionSurvivesErrors ==
    [][\A p \in ProcIds :
          /\ (inRun[p] /\ pc[p] = "raised" /\ pc'[p] # "raised")
             => (pc'[p] = "prompt" /\ errorShown'[p] /\ exitCode'[p] = -1)
          /\ (pc[p] = "prompt" /\ pc'[p] = "exited") => exitCode'[p] = 0
          /\ (exitCode'[p] = 1)
             => (pc[p] \in {"idle", "exited"} /\ pc'[p] = "exited" /\ ~prompted'[p])
          /\ (inRun'[p] /\ pc'[p] \in InCall) => (prompted'[p] /\ exitCode'[p] = -1)
      ]_vars

C10_Witness ==
    /\ pc[1] = "exited"
    /\ exitCode[1] = 0
    /\ errorShown[1]
    /\ calls = 2

====
